---------------------------- MODULE Spec2Model ----------------------------
(***************************************************************************)
(* Mario Trap Avoidance: the grid model (MarioTrapAvoidance.__init__,      *)
(* initialize_grid, get_neighbors, is_safe_path), the A* search with       *)
(* logical pruning (a_star_search, heuristic, reconstruct_path) and the    *)
(* two request handlers that drive them (new_grid, find_path).             *)
(*                                                                         *)
(* A coordinate is <<x, y>>, 0-based as in the source; the cell of (x, y)  *)
(* of a matrix g is g[y + 1][x + 1] (the source reads self.grid[y][x]).    *)
(***************************************************************************)
EXTENDS Integers, Sequences, FiniteSets, TLC

\* ------------------------------------------------------------- constants
EMPTY == 0
TRAP == 1
DANGEROUS == 2
DangerThreshold == 3
AttemptFactor == 10

\* ---------------------------------------------------------------- bounds
\* Largest grid size requested from new_grid, and largest trap_count.
MaxGenSize == 3
MaxTraps == 2
\* A square matrix posted to find_path has size n and k non-Empty codes with
\* n + k at most this.
MaxPosted == 6
\* The same for the matrices of the fair specification.
MaxLivePosted == 5
\* The same for the square matrices malformed (ragged) ones are made from.
MaxRaggedPosted == 4

VARIABLES
    pc,            \* position of the running handler
    status,        \* HTTP status of the response (0: none yet)
    grid_size,     \* self.grid_size
    grid,          \* self.grid: a sequence of rows
    trap_count,    \* initialize_grid's argument
    traps_placed,  \* initialize_grid's local
    attempts,      \* initialize_grid's local
    open_set,      \* a_star_search's heap, kept in pop order
    came_from,     \* a_star_search's dict
    g_score,       \* a_star_search's defaultdict (absent key: infinity)
    f_score,       \* a_star_search's defaultdict (absent key: infinity)
    explored,
    pruned,
    visited,
    current,       \* the coordinate being expanded
    todo,          \* the neighbors of current still to be looked at
    path,          \* the result's 'path'
    path_length    \* the result's stats['path_length']

vars == <<pc, status, grid_size, grid, trap_count, traps_placed, attempts,
          open_set, came_from, g_score, f_score, explored, pruned, visited,
          current, todo, path, path_length>>

searchVars == <<open_set, came_from, g_score, f_score, explored, pruned,
                visited, current, todo, path, path_length>>

genVars == <<trap_count, traps_placed, attempts>>

\* ----------------------------------------------------------- grid model
Range(n) == 0 .. (n - 1)

Coords(n) == Range(n) \X Range(n)

\* [[0 for _ in range(grid_size)] for _ in range(grid_size)]
ZeroGrid(n) == [r \in 1 .. n |-> [c \in 1 .. n |-> EMPTY]]

start == <<0, 0>>

goal == <<grid_size - 1, grid_size - 1>>

\* self.grid[y][x]
Cell(g, x, y) == g[y + 1][x + 1]

\* self.grid[y][x] = v
SetCell(g, x, y, v) == [g EXCEPT ![y + 1][x + 1] = v]

\* Whether self.grid[y][x] can be read at all: 0 <= y < len(grid) holds for
\* every coordinate get_neighbors yields, row y may be too short.
Readable(g, x, y) == y + 1 <= Len(g) /\ x + 1 <= Len(g[y + 1])

Directions == << <<0, 1>>, <<1, 0>>, <<0, -1>>, <<-1, 0>> >>

InBounds(n, p) == 0 <= p[1] /\ p[1] < n /\ 0 <= p[2] /\ p[2] < n

\* get_neighbors without the last direction (Left).
get_neighbors_no_left(n, x, y) ==
    SelectSeq([i \in 1 .. 3 |-> <<x + Directions[i][1], y + Directions[i][2]>>],
              LAMBDA p : InBounds(n, p))

get_neighbors(n, x, y) ==
    SelectSeq([i \in 1 .. 4 |-> <<x + Directions[i][1], y + Directions[i][2]>>],
              LAMBDA p : InBounds(n, p))

SeqToSet(s) == {s[i] : i \in 1 .. Len(s)}

\* The number of neighbors whose cell is DANGEROUS or TRAP.
dangerous_count(g, n, x, y) ==
    LET nb == get_neighbors(n, x, y)
    IN Cardinality({i \in 1 .. Len(nb) :
                      Cell(g, nb[i][1], nb[i][2]) \in {DANGEROUS, TRAP}})

\* Whether some neighbor's cell lies beyond the end of its row: reading it
\* raises IndexError.
NeighborUnreadable(g, n, x, y) ==
    \E p \in SeqToSet(get_neighbors(n, x, y)) : ~Readable(g, p[1], p[2])

\* is_safe_path without Rule 1.
is_safe_path_no_trap_rule(g, n, x, y) ==
    IF ~Readable(g, x, y) THEN "IndexError"
    ELSE IF NeighborUnreadable(g, n, x, y) THEN "IndexError"
    ELSE IF dangerous_count(g, n, x, y) >= DangerThreshold THEN "False"
    ELSE "True"

\* is_safe_path with Rule 2's test off by one.
is_safe_path_above_threshold(g, n, x, y) ==
    IF ~Readable(g, x, y) THEN "IndexError"
    ELSE IF Cell(g, x, y) = TRAP THEN "False"
    ELSE IF NeighborUnreadable(g, n, x, y) THEN "IndexError"
    ELSE IF dangerous_count(g, n, x, y) > DangerThreshold THEN "False"
    ELSE "True"

\* is_safe_path's outcome: "True", "False", or "IndexError" when a cell it
\* reads lies beyond the end of its row.
is_safe_path(g, n, x, y) ==
    IF ~Readable(g, x, y) THEN "IndexError"
    ELSE IF Cell(g, x, y) = TRAP THEN "False"
    ELSE IF NeighborUnreadable(g, n, x, y) THEN "IndexError"
    ELSE IF dangerous_count(g, n, x, y) >= DangerThreshold THEN "False"
    ELSE "True"

\* The guard without the test of the goal.
CanPlace_goal_unchecked(g, n, x, y) ==
    /\ <<x, y>> # <<0, 0>>
    /\ Cell(g, x, y) # TRAP

\* The guard of the placement in initialize_grid's loop.
CanPlace(g, n, x, y) ==
    /\ <<x, y>> # <<0, 0>>
    /\ <<x, y>> # <<n - 1, n - 1>>
    /\ Cell(g, x, y) # TRAP

\* The marking of one trap's neighbors: every EMPTY neighbor becomes
\* DANGEROUS.
RECURSIVE MarkNeighbors(_, _, _)
MarkNeighbors(g, nb, i) ==
    IF i > Len(nb) THEN g
    ELSE LET x == nb[i][1]
             y == nb[i][2]
         IN MarkNeighbors(IF Cell(g, x, y) = EMPTY
                            THEN SetCell(g, x, y, DANGEROUS) ELSE g,
                          nb, i + 1)

\* The marking pass: for y in range(n): for x in range(n), from cell k
\* (k = y * n + x) on.
RECURSIVE MarkDangerous(_, _, _)
MarkDangerous(g, n, k) ==
    IF k >= n * n THEN g
    ELSE LET x == k % n
             y == k \div n
         IN MarkDangerous(IF Cell(g, x, y) = TRAP
                            THEN MarkNeighbors(g, get_neighbors(n, x, y), 1)
                            ELSE g,
                          n, k + 1)

\* --------------------------------------------------------------- search
Abs(i) == IF i < 0 THEN -i ELSE i

heuristic(n, p) == Abs(p[1] - (n - 1)) + Abs(p[2] - (n - 1))

\* Python's order on the heap's tuples (f, (x, y)).
EntryLess(a, b) ==
    \/ a[1] < b[1]
    \/ /\ a[1] = b[1]
       /\ \/ a[2][1] < b[2][1]
          \/ a[2][1] = b[2][1] /\ a[2][2] < b[2][2]

\* heapq.heappush: the heap is kept as the sequence of its entries in the
\* order heappop returns them.
RECURSIVE HeapPush(_, _)
HeapPush(h, e) ==
    IF h = <<>> THEN <<e>>
    ELSE IF EntryLess(e, Head(h)) THEN <<e>> \o h
    ELSE <<Head(h)>> \o HeapPush(Tail(h), e)

\* heapq.heappop: the entry returned, and the heap left.
HeapTop(h) == Head(h)

\* The heap left by a read of open_set[0] that pops nothing.
HeapRest_peek(h) == h

HeapRest(h) == Tail(h)

\* The loop without the skip of a visited coordinate.
AlreadyVisited_never(cur, vis) == FALSE

\* `if current in visited`: a stale duplicate of the heap.
AlreadyVisited(cur, vis) == cur \in vis

\* g_score[p] of the defaultdict: tentative < g_score[p], an absent key
\* standing for infinity.
Improves(gs, tentative, p) == p \notin DOMAIN gs \/ tentative < gs[p]

\* The cost without the penalty of a dangerous zone.
move_cost_flat(g, p) == 1

move_cost(g, p) == IF Cell(g, p[1], p[2]) = DANGEROUS THEN 2 ELSE 1

\* pruned += 1 for every neighbor looked at.
PrunedAfter_always(count, safe) == count + 1

\* `if not self.is_safe_path(*neighbor): pruned += 1`
PrunedAfter(count, safe) == IF safe # "True" THEN count + 1 ELSE count

\* reconstruct_path, the list before path.reverse().
RECURSIVE PathBack(_, _)
PathBack(cf, p) ==
    IF p \in DOMAIN cf THEN <<p>> \o PathBack(cf, cf[p]) ELSE <<p>>

Reverse(s) == [i \in 1 .. Len(s) |-> s[Len(s) + 1 - i]]

reconstruct_path(cf, p) == Reverse(PathBack(cf, p))

NoMap == [p \in {} |-> 0]

\* ----------------------------------------------------------------- Init
Init ==
    /\ pc = "idle"
    /\ status = 0
    /\ grid_size = 0
    /\ grid = <<>>
    /\ trap_count = 0
    /\ traps_placed = 0
    /\ attempts = 0
    /\ open_set = <<>>
    /\ came_from = NoMap
    /\ g_score = NoMap
    /\ f_score = NoMap
    /\ explored = 0
    /\ pruned = 0
    /\ visited = {}
    /\ current = start
    /\ todo = <<>>
    /\ path = <<>>
    /\ path_length = 0

\* ------------------------------------------------------------- new_grid
\* new_grid up to the first test of initialize_grid's loop: the constructor
\* and the reset of the grid.
NewGrid(n, tc) ==
    /\ pc = "idle"
    /\ grid_size' = n
    /\ grid' = ZeroGrid(n)
    /\ trap_count' = tc
    /\ traps_placed' = 0
    /\ attempts' = 0
    /\ pc' = "placing"
    /\ UNCHANGED <<status, searchVars>>

\* One turn of the placement loop, with the coordinate random.randint draws;
\* randint(0, -1) raises ValueError.
PlaceAttempt ==
    /\ pc = "placing"
    /\ traps_placed < trap_count /\ attempts < trap_count * AttemptFactor
    /\ IF Range(grid_size) = {}
         THEN /\ pc' = "raised"
              /\ status' = 500
              /\ UNCHANGED <<grid, traps_placed, attempts>>
         ELSE \E x \in Range(grid_size), y \in Range(grid_size) :
              /\ IF CanPlace(grid, grid_size, x, y)
                   THEN /\ grid' = SetCell(grid, x, y, TRAP)
                        /\ traps_placed' = traps_placed + 1
                   ELSE UNCHANGED <<grid, traps_placed>>
              /\ attempts' = attempts + 1
              /\ UNCHANGED <<pc, status>>
    /\ UNCHANGED <<grid_size, trap_count, searchVars>>

\* The loop has ended: the marking pass, the return (initialize_grid's
\* locals are gone) and the response.
FinishGrid ==
    /\ pc = "placing"
    /\ ~(traps_placed < trap_count /\ attempts < trap_count * AttemptFactor)
    /\ grid' = MarkDangerous(grid, grid_size, 0)
    /\ trap_count' = 0
    /\ traps_placed' = 0
    /\ attempts' = 0
    /\ pc' = "generated"
    /\ status' = 200
    /\ UNCHANGED <<grid_size, searchVars>>

\* ------------------------------------------------------------ find_path
\* A request body: has (whether the key 'grid' is there) and rows.
Body(rows) == [has |-> TRUE, rows |-> rows]

NoGridBody == [has |-> FALSE, rows |-> <<>>]

\* `not grid`: None or an empty list.
NotGrid(body) == ~body.has \/ body.rows = <<>>

\* find_path up to the first test of the search loop: the rejection of a
\* missing grid, or the constructor, game.grid = grid and the set-up of
\* a_star_search.
FindPath(body) ==
    /\ pc \in {"idle", "generated"}
    /\ IF NotGrid(body)
         THEN /\ pc' = "rejected"
              /\ status' = 400
              /\ UNCHANGED <<grid_size, grid, searchVars>>
         ELSE /\ grid_size' = Len(body.rows)
              /\ grid' = body.rows
              /\ open_set' = HeapPush(<<>>, <<0, start>>)
              /\ came_from' = NoMap
              /\ g_score' = (start :> 0)
              /\ f_score' = (start :> heuristic(Len(body.rows), start))
              /\ explored' = 0
              /\ pruned' = 0
              /\ visited' = {}
              /\ current' = start
              /\ todo' = <<>>
              /\ path' = <<>>
              /\ path_length' = 0
              /\ pc' = "search"
              /\ status' = 0
    /\ UNCHANGED genVars

\* One test of `while open_set`, and the turn up to the loop over the
\* neighbors: the pop, the skip of a visited coordinate, the settling, the
\* return at the goal; or the return of the failure result.
PopStep ==
    /\ pc = "search"
    /\ IF open_set = <<>>
         THEN /\ path' = <<>>
              /\ path_length' = 0
              /\ pc' = "done"
              /\ status' = 200
              /\ UNCHANGED <<open_set, visited, explored, current, todo>>
         ELSE LET cur == HeapTop(open_set)[2]
              IN /\ open_set' = HeapRest(open_set)
                 /\ IF AlreadyVisited(cur, visited)
                      THEN UNCHANGED <<visited, explored, current, todo,
                                       path, path_length, pc, status>>
                      ELSE /\ visited' = visited \cup {cur}
                           /\ explored' = explored + 1
                           /\ current' = cur
                           /\ IF cur = goal
                                THEN /\ path' = reconstruct_path(came_from, cur)
                                     /\ path_length' = Len(path')
                                     /\ pc' = "done"
                                     /\ status' = 200
                                     /\ todo' = todo
                                ELSE /\ todo' = get_neighbors(grid_size,
                                                              cur[1], cur[2])
                                     /\ pc' = IF todo' = <<>> THEN "search"
                                              ELSE "expand"
                                     /\ UNCHANGED <<path, path_length,
                                                     status>>
    /\ UNCHANGED <<grid_size, grid, genVars, came_from, g_score, f_score,
                   pruned>>

\* One turn of `for neighbor in self.get_neighbors(*current)`.
NeighborStep ==
    /\ pc = "expand"
    /\ LET neighbor == Head(todo)
           x == neighbor[1]
           y == neighbor[2]
           safe == is_safe_path(grid, grid_size, x, y)
       IN IF safe = "IndexError"
            THEN /\ pc' = "raised"
                 /\ status' = 500
                 /\ UNCHANGED <<open_set, came_from, g_score, f_score,
                                pruned, todo>>
            ELSE LET tentative_g_score == g_score[current]
                                             + move_cost(grid, neighbor)
                     f == tentative_g_score + heuristic(grid_size, neighbor)
                 IN /\ pruned' = PrunedAfter(pruned, safe)
                    /\ IF safe = "True"
                          /\ Improves(g_score, tentative_g_score, neighbor)
                         THEN /\ came_from' = [p \in DOMAIN came_from
                                                 \cup {neighbor} |->
                                  IF p = neighbor THEN current
                                  ELSE came_from[p]]
                              /\ g_score' = [p \in DOMAIN g_score
                                               \cup {neighbor} |->
                                  IF p = neighbor THEN tentative_g_score
                                  ELSE g_score[p]]
                              /\ f_score' = [p \in DOMAIN f_score
                                               \cup {neighbor} |->
                                  IF p = neighbor THEN f ELSE f_score[p]]
                              /\ open_set' = HeapPush(open_set,
                                                      <<f, neighbor>>)
                         ELSE UNCHANGED <<open_set, came_from, g_score,
                                          f_score>>
                    /\ todo' = Tail(todo)
                    /\ pc' = IF Tail(todo) = <<>> THEN "search" ELSE "expand"
                    /\ UNCHANGED status
    /\ UNCHANGED <<grid_size, grid, genVars, explored, visited, current, path,
                   path_length>>


\* --------------------------------------------------------------- inputs
\* The n x n matrix whose non-Empty codes are those of h, a function from
\* coordinates to codes.
MatrixOf(n, h) ==
    [r \in 1 .. n |-> [c \in 1 .. n |->
        IF <<c - 1, r - 1>> \in DOMAIN h THEN h[<<c - 1, r - 1>>] ELSE EMPTY]]

\* The subsets of S of at most k elements.
RECURSIVE SubsetsUpTo(_, _)
SubsetsUpTo(S, k) ==
    IF k <= 0 THEN {{}}
    ELSE LET smaller == SubsetsUpTo(S, k - 1)
         IN smaller \cup {T \cup {x} : T \in smaller, x \in S}

\* What a client may post: no grid, an empty list, or a matrix.  A square
\* matrix is named by its size n and the function h of its non-Empty codes;
\* a ragged one has, besides, row r cut or padded to length l.
Resize(row, l) == [i \in 1 .. l |-> IF i <= Len(row) THEN row[i] ELSE EMPTY]

Ragged(g, r, l) == [g EXCEPT ![r] = Resize(g[r], l)]

IsSquare(g) == \A r \in 1 .. Len(g) : Len(g[r]) = Len(g)

\* ------------------------------------------------------- specifications
NewGridRequest ==
    \E n \in 0 .. MaxGenSize, tc \in 0 .. MaxTraps : NewGrid(n, tc)

\* A client posts a square matrix of size n with at most w - n non-Empty
\* codes.
PostSquare(w) ==
    \E n \in 1 .. w : \E T \in SubsetsUpTo(Coords(n), w - n) :
       \E h \in [T -> {TRAP, DANGEROUS}] : FindPath(Body(MatrixOf(n, h)))

\* A client posts a matrix one of whose rows is shorter or longer than the
\* number of rows.
PostRagged ==
    \E n \in 1 .. MaxRaggedPosted :
       \E T \in SubsetsUpTo(Coords(n), MaxRaggedPosted - n) :
          \E h \in [T -> {TRAP, DANGEROUS}] :
             \E r \in 1 .. n, l \in (0 .. n + 1) \ {n} :
                FindPath(Body(Ragged(MatrixOf(n, h), r, l)))

\* A client posts no grid, or an empty one.
PostNothing == FindPath(NoGridBody) \/ FindPath(Body(<<>>))

FindPathPosted ==
    /\ pc = "idle"
    /\ PostNothing \/ PostSquare(MaxPosted) \/ PostRagged

FindPathSquare == pc = "idle" /\ PostSquare(MaxPosted)

FindPathLive == pc = "idle" /\ PostSquare(MaxLivePosted)

\* The page's round trip: the grid new-grid returned is posted back.
FindPathGenerated == pc = "generated" /\ FindPath(Body(grid))

Next ==
    \/ NewGridRequest
    \/ PlaceAttempt
    \/ FinishGrid
    \/ FindPathPosted
    \/ FindPathGenerated
    \/ PopStep
    \/ NeighborStep

Spec == Init /\ [][Next]_vars

NextGen == NewGridRequest \/ PlaceAttempt \/ FinishGrid

SpecGen == Init /\ [][NextGen]_vars

NextSearch == FindPathSquare \/ PopStep \/ NeighborStep

SpecSearch == Init /\ [][NextSearch]_vars

NextLive == FindPathLive \/ PopStep \/ NeighborStep

\* a_star_search runs to completion within the call: no step of it waits.
SpecLive == Init /\ [][NextLive]_vars /\ WF_vars(PopStep) /\ WF_vars(NeighborStep)


\* --------------------------------------------------------------- claims
\* The notions the claims are stated in, written from the grid alone.
Adjacent(p, q) == Abs(p[1] - q[1]) + Abs(p[2] - q[2]) = 1

CellAt(p) == Cell(grid, p[1], p[2])

HazardsAround(p) ==
    Cardinality({q \in Coords(grid_size) :
                   Adjacent(p, q) /\ CellAt(q) \in {TRAP, DANGEROUS}})

\* The rules is_safe_path documents: never a trap, never a cell with 3 or
\* more dangerous or trap neighbors.
PassesSafety(p) == CellAt(p) # TRAP /\ HazardsAround(p) < 3

EnterCost(p) == IF CellAt(p) = DANGEROUS THEN 2 ELSE 1

\* The cells of safe that one step of a 4-connected route can enter from a
\* cell of `from` at cost c.
Entered(safe, from, c) ==
    {p \in safe : EnterCost(p) = c /\ \E q \in from : Adjacent(p, q)}

\* within is the set of cells some route from start reaches at total cost at
\* most k, before the same set for k - 1: the least cost of a route to the
\* goal, as a set that is empty when no route reaches it (the sets have
\* stopped growing, or k has passed the cost of the longest simple route).
RECURSIVE CheapestFrom(_, _, _, _)
CheapestFrom(safe, before, within, k) ==
    IF goal \in within THEN {k}
    ELSE IF k >= 2 * grid_size * grid_size THEN {}
    ELSE LET next == within \cup Entered(safe, within, 1)
                            \cup Entered(safe, before, 2)
         IN IF next = within /\ within = before THEN {}
            ELSE CheapestFrom(safe, within, next, k + 1)

\* (The test of safe has the set computed once, before the recursion.)
Cheapest ==
    LET safe == {p \in Coords(grid_size) : PassesSafety(p)}
    IN IF safe = {} THEN CheapestFrom({}, {}, {start}, 0)
       ELSE CheapestFrom(safe, {}, {start}, 0)

RECURSIVE CostFrom(_, _)
CostFrom(route, i) ==
    IF i > Len(route) THEN 0 ELSE EnterCost(route[i]) + CostFrom(route, i + 1)

\* The total movement cost of a route: every cell after the first.
RouteCost(route) == CostFrom(route, 2)

\* A 4-connected route from start to goal whose every cell after the first
\* passes the safety rules.
IsSafeRoute(route) ==
    /\ route # <<>>
    /\ route[1] = start
    /\ route[Len(route)] = goal
    /\ \A i \in 2 .. Len(route) :
          Adjacent(route[i - 1], route[i]) /\ PassesSafety(route[i])

Returned == pc = "done"

Searching == pc \in {"search", "expand"}

TrapCount == Cardinality({p \in Coords(grid_size) : CellAt(p) = TRAP})

\* C1: when a_star_search returns a non-empty path on a square grid, no safe
\* 4-connected route from start to goal costs strictly less than the path.
C1_PathIsCheapest ==
    (Returned /\ IsSquare(grid) /\ path # <<>>)
       => \A k \in Cheapest : RouteCost(path) <= k

\* C1's case: a returned path that enters a dangerous cell on a grid where
\* the search also pruned a neighbor.
C1_Witness ==
    /\ Returned /\ path # <<>> /\ grid_size >= 3 /\ pruned > 0
    /\ RouteCost(path) > Len(path) - 1

\* C2 as claimed: no cell of the returned path, the first included, is a
\* Trap (stated for the square matrices of size at least 2 alone).
C2_NoTrapInPath ==
    (Returned /\ IsSquare(grid) /\ grid_size >= 2)
       => \A i \in 1 .. Len(path) : CellAt(path[i]) # TRAP

\* C2 as amended: no cell of the returned path after the first is a Trap.
C2_NoTrapAfterStart ==
    Returned => \A i \in 2 .. Len(path) : CellAt(path[i]) # TRAP

\* C2's case: a path returned around a trap it touches.
C2_Witness ==
    /\ Returned /\ IsSquare(grid) /\ Len(path) >= 3
    /\ \E i \in 2 .. Len(path) : \E q \in Coords(grid_size) :
          Adjacent(path[i], q) /\ CellAt(q) = TRAP

\* C3: after initialize_grid on a grid of size at least 2, neither the start
\* nor the goal is a Trap.
C3_StartGoalNeverTrap ==
    (pc = "generated" /\ grid_size >= 2)
       => CellAt(start) # TRAP /\ CellAt(goal) # TRAP

\* C3's case: a generated grid that holds every trap asked for.
C3_Witness ==
    pc = "generated" /\ grid_size >= 2 /\ TrapCount = MaxTraps

\* C4: after initialize_grid a cell is Dangerous exactly when it is not a
\* Trap and some in-bounds 4-neighbor is a Trap; every other cell that is not
\* a Trap is Empty.
C4_DangerousIffNextToTrap ==
    pc = "generated" =>
       \A p \in Coords(grid_size) :
          LET nextToTrap == \E q \in Coords(grid_size) :
                               Adjacent(p, q) /\ CellAt(q) = TRAP
          IN /\ CellAt(p) \in {EMPTY, TRAP, DANGEROUS}
             /\ CellAt(p) = DANGEROUS <=> (CellAt(p) # TRAP /\ nextToTrap)

\* C4's case: a generated grid with a trap, a dangerous and an empty cell.
C4_Witness ==
    /\ pc = "generated"
    /\ \E p, q, r \in Coords(grid_size) :
          CellAt(p) = TRAP /\ CellAt(q) = DANGEROUS /\ CellAt(r) = EMPTY

\* C5 as claimed: a grid of size below 2 is never constructed, so no handler
\* gets past the constructor with one.
C5_SmallSizeRejected ==
    pc \notin {"idle", "rejected"} => grid_size >= 2

\* C6 as claimed: a_star_search is never started on a matrix that is not
\* square.
C6_SearchOnlyOnSquare ==
    pc \in {"search", "expand", "done", "raised"} => IsSquare(grid)

\* C7: pruned grows by exactly 1 in a step that looks at a neighbor failing
\* is_safe_path, and is unchanged in every other step.
C7_PrunedCountsUnsafeOnly ==
    [][IF pc = "expand"
          /\ is_safe_path(grid, grid_size, Head(todo)[1], Head(todo)[2])
                = "False"
         THEN pruned' = pruned + 1
         ELSE pruned' = pruned]_vars

\* C7's case: after some pruning, the neighbor looked at is safe and its
\* tentative cost does not improve on its g_score.
C7_Witness ==
    /\ pc = "expand" /\ pruned > 0
    /\ is_safe_path(grid, grid_size, Head(todo)[1], Head(todo)[2]) = "True"
    /\ ~Improves(g_score, g_score[current] + move_cost(grid, Head(todo)),
                 Head(todo))

\* C8: on a square grid of size at least 2 the search returns the failure
\* result exactly when no safe route from start to goal exists, and a safe
\* route from start to goal otherwise.
C8_FailureIffNoSafeRoute ==
    (Returned /\ IsSquare(grid) /\ grid_size >= 2) =>
       /\ path = <<>> <=> Cheapest = {}
       /\ path = <<>> => path_length = 0
       /\ path # <<>> => IsSafeRoute(path) /\ path_length = Len(path)
       /\ ~PassesSafety(goal) => path = <<>>

\* C8's case: the failure result on a grid whose goal is no trap and where
\* some cell that is no trap fails the safety rules.
C8_Witness ==
    /\ Returned /\ IsSquare(grid) /\ grid_size >= 2
    /\ path = <<>> /\ path_length = 0 /\ explored > 1 /\ pruned > 0
    /\ CellAt(goal) # TRAP
    /\ \E p \in Coords(grid_size) : CellAt(p) # TRAP /\ ~PassesSafety(p)

\* C9: the search terminates: once started, it returns.
C9_Terminates == Searching ~> Returned

\* C9's case: the search has returned while the heap still holds an entry of
\* a coordinate settled earlier, one pushed more than once.
C9_Witness ==
    /\ Returned
    /\ \E i \in 1 .. Len(open_set) : open_set[i][2] \in visited

StalePop ==
    pc = "search" /\ open_set # <<>> /\ HeapTop(open_set)[2] \in visited

\* C10: explored is the number of settled coordinates and at most N * N; a
\* stale pop changes none of explored, pruned, g_score, came_from; a step
\* settles at most one coordinate, a new one; the g_score and came_from
\* entries of a settled coordinate never change.
C10_SettledOnce ==
    /\ [](Searching \/ Returned
            => explored = Cardinality(visited)
               /\ explored <= grid_size * grid_size)
    /\ [][/\ StalePop => UNCHANGED <<explored, pruned, g_score, came_from,
                                     visited>>
          /\ visited' # visited =>
                \E p \in Coords(grid_size) \ visited :
                   visited' = visited \cup {p} /\ explored' = explored + 1
          /\ Searching =>
                \A p \in visited :
                   /\ g_score'[p] = g_score[p]
                   /\ p \in DOMAIN came_from <=> p \in DOMAIN came_from'
                   /\ p \in DOMAIN came_from => came_from'[p] = came_from[p]
         ]_vars

\* C10's case: the entry about to be popped is a stale one.
C10_Witness == StalePop /\ explored >= 3

=============================================================================
